---- MODULE Spec2Model ----
(***************************************************************************)
(* Reply-to-table normalizer of the Social Media Data Extractor            *)
(* (src/components/ResultsViewer.tsx): the rawText effect of ResultsViewer, *)
(* parseMetricToNumber, the pagination handlers and the export; and of App  *)
(* (src/App.tsx) with processFiles (src/services/geminiService.ts).        *)
(*                                                                         *)
(* A JavaScript string is a sequence of characters.  A character is a      *)
(* one-character TLA+ string; a character outside ASCII is written by its  *)
(* code point: "U+4E07" is the ten-thousand unit, "U+7528" "U+6237"        *)
(* "U+540D" spell the localized header token.                              *)
(***************************************************************************)
EXTENDS Integers, Sequences, FiniteSets, TLC

VARIABLES rawText, cleanTsv, parsedData, rowLine, currentPage, effect,
          headers, isEditingHeaders, activeTab, copied, clipboard,
          mValue, mResult, mDone,
          API_KEY, files, platform, isProcessing, result, error, request

vars == <<rawText, cleanTsv, parsedData, rowLine, currentPage, effect,
          headers, isEditingHeaders, activeTab, copied, clipboard,
          mValue, mResult, mDone,
          API_KEY, files, platform, isProcessing, result, error, request>>

viewerVars == <<rawText, cleanTsv, parsedData, rowLine, currentPage, effect>>
uiVars == <<headers, isEditingHeaders, activeTab, copied, clipboard>>
metricVars == <<mValue, mResult, mDone>>
appVars == <<API_KEY, files, platform, isProcessing, result, error, request>>

(***************************************************************************)
(* Characters and JavaScript string primitives                             *)
(***************************************************************************)
TAB == "\t"
NL == "\n"
PIPE == "|"
WAN == "U+4E07"

\* the value of a missing array element or property
Undefined == <<"undefined">>

\* The element of a one-element set.  Only({F(x) : x \in {e}}) is F(e) with e
\* evaluated once, however often F reads x.
Only(S) == CHOOSE x \in S : TRUE

UpperLetters ==
  <<"A","B","C","D","E","F","G","H","I","J","K","L","M",
    "N","O","P","Q","R","S","T","U","V","W","X","Y","Z">>
LowerLetters ==
  <<"a","b","c","d","e","f","g","h","i","j","k","l","m",
    "n","o","p","q","r","s","t","u","v","w","x","y","z">>

LowerMap ==
  [c \in {UpperLetters[i] : i \in 1..26} |->
     LowerLetters[CHOOSE i \in 1..26 : UpperLetters[i] = c]]

LowerChar(c) == IF c \in DOMAIN LowerMap THEN LowerMap[c] ELSE c

\* String.prototype.toLowerCase
ToLowerCase(s) == Only({[i \in 1..Len(v) |-> LowerChar(v[i])] : v \in {s}})

\* the white space String.prototype.trim removes
IsWhiteSpace(c) == c \in {" ", TAB, NL, "\r"}

RECURSIVE TrimStartIndex(_, _)
\* position of the first character of s at or after i that is not white space
TrimStartIndex(s, i) ==
  IF i <= Len(s) /\ IsWhiteSpace(s[i]) THEN TrimStartIndex(s, i + 1) ELSE i

RECURSIVE TrimEndIndex(_, _)
\* position of the last character of s at or before i that is not white space
TrimEndIndex(s, i) ==
  IF i >= 1 /\ IsWhiteSpace(s[i]) THEN TrimEndIndex(s, i - 1) ELSE i

\* String.prototype.trim
Trim(s) ==
  Only({SubSeq(v, TrimStartIndex(v, 1), TrimEndIndex(v, Len(v))) : v \in {s}})

\* pat occurs in s at (1-based) position i
StartsAt(s, pat, i) ==
  /\ i >= 1
  /\ i + Len(pat) - 1 <= Len(s)
  /\ \A j \in 1..Len(pat) : s[i + j - 1] = pat[j]

\* String.prototype.includes
Includes(s, pat) ==
  \E v \in {s} : \E i \in 1..(Len(v) - Len(pat) + 1) : StartsAt(v, pat, i)

\* String.prototype.startsWith / endsWith
StartsWith(s, pat) == StartsAt(s, pat, 1)
EndsWith(s, pat) == StartsAt(s, pat, Len(s) - Len(pat) + 1)

\* position of the k-th separator among the positions seps of a string of
\* length len; 0 for k = 0 and len + 1 past the last separator
SeparatorAt(seps, k, len) ==
  IF k = 0 THEN 0
  ELSE IF k > Cardinality(seps) THEN len + 1
       ELSE Only({i \in seps : Cardinality({j \in seps : j <= i}) = k})

\* String.prototype.split with a one-character separator: one piece more
\* than there are separators, empty pieces kept
Split(s, sep) ==
  Only({
    Only({[k \in 1..(Cardinality(seps) + 1) |->
             SubSeq(v, SeparatorAt(seps, k - 1, Len(v)) + 1,
                       SeparatorAt(seps, k, Len(v)) - 1)]
            : seps \in {{i \in 1..Len(v) : v[i] = sep}}})
    : v \in {s}})

RECURSIVE Join(_, _)
\* Array.prototype.join
Join(parts, sep) ==
  IF Len(parts) = 0 THEN <<>>
  ELSE IF Len(parts) = 1 THEN parts[1]
       ELSE parts[1] \o sep \o Join(Tail(parts), sep)

\* String.prototype.replace(/c1|c2|.../gi, ''): drop every character whose
\* lower-case form is in cs
RemoveChars(s, cs) == SelectSeq(s, LAMBDA c : LowerChar(c) \notin cs)

\* element i (0-based) of a JavaScript array
At(arr, i) == IF i + 1 <= Len(arr) THEN arr[i + 1] ELSE Undefined

\* a || d on strings: d when a is undefined or empty
OrElse(a, d) == IF a = Undefined \/ a = <<>> THEN d ELSE a

(***************************************************************************)
(* Numbers.  A JavaScript number is NaN, an infinity, or a finite decimal  *)
(* m * 10^e with a sign (the sign of a zero is kept, as IEEE 754 does).    *)
(* Products by a power of ten are exact decimals: the rounding of the last *)
(* bit of a double is left out (7.89 * 10000 is exactly 78900 as a double).*)
(***************************************************************************)
Digits == <<"0","1","2","3","4","5","6","7","8","9">>
IsDigit(c) == \E d \in 1..10 : Digits[d] = c
DigitVal(c) == (CHOOSE d \in 1..10 : Digits[d] = c) - 1

RECURSIVE Pow10(_)
Pow10(n) == IF n = 0 THEN 1 ELSE 10 * Pow10(n - 1)

RECURSIVE NumDigits(_)
NumDigits(m) == IF m < 10 THEN 1 ELSE 1 + NumDigits(m \div 10)

NaN == [k |-> "nan", neg |-> FALSE, m |-> 0, e |-> 0]
Infinite(neg) == [k |-> "inf", neg |-> neg, m |-> 0, e |-> 0]

RECURSIVE StripZeros(_, _)
StripZeros(m, e) ==
  IF m = 0 THEN <<0, 0>>
  ELSE IF m % 10 = 0 THEN StripZeros(m \div 10, e + 1) ELSE <<m, e>>

\* largest and smallest decimal orders of magnitude of a double, and the
\* leading nine digits of the largest double 1.7976931348623157e308
MaxOrder == 308
MinOrder == -324
MaxLead == 179769313

\* the double nearest to (-1)^neg * m * 10^e, for m of at most nine digits
Finite(neg, m, e) ==
  LET z == StripZeros(m, e)
      order == NumDigits(z[1]) + z[2] - 1
      lead == z[1] * Pow10(9 - NumDigits(z[1]))
  IN IF z[1] = 0 THEN [k |-> "fin", neg |-> neg, m |-> 0, e |-> 0]
     ELSE IF order > MaxOrder \/ (order = MaxOrder /\ lead > MaxLead)
          THEN Infinite(neg)
          ELSE IF order < MinOrder
               THEN [k |-> "fin", neg |-> neg, m |-> 0, e |-> 0]
               ELSE [k |-> "fin", neg |-> neg, m |-> z[1], e |-> z[2]]

\* the number literal 0 and a non-negative integer literal
Zero == Finite(FALSE, 0, 0)
IntNum(n) == Finite(FALSE, n, 0)

\* isNaN, Number.isFinite, x >= 0
IsNaN(x) == x.k = "nan"
IsFiniteNum(x) == x.k = "fin"
IsNonNegative(x) == x.k # "nan" /\ ((x.k = "fin" /\ x.m = 0) \/ ~x.neg)

RECURSIVE Log10(_)
Log10(p) == IF p = 1 THEN 0 ELSE 1 + Log10(p \div 10)

\* x * p for a multiplier p that is a power of ten
Times(x, p) ==
  IF x.k = "fin" THEN Finite(x.neg, x.m, x.e + Log10(p)) ELSE x

\* number of digit characters of s starting at position i
RECURSIVE DigitRun(_, _)
DigitRun(s, i) ==
  IF i <= Len(s) /\ IsDigit(s[i]) THEN 1 + DigitRun(s, i + 1) ELSE 0

\* value of the n digit characters of s starting at position i
RECURSIVE DigitsValue(_, _, _)
DigitsValue(s, i, n) ==
  IF n = 0 THEN 0
  ELSE 10 * DigitsValue(s, i, n - 1) + DigitVal(s[i + n - 1])

CharAt(s, i) == IF i >= 1 /\ i <= Len(s) THEN s[i] ELSE ""

INFINITY == <<"I","n","f","i","n","i","t","y">>

\* the global parseFloat: leading white space, then the longest prefix that
\* is a StrDecimalLiteral; NaN when there is none
parseFloat(str) ==
  Only({
    LET i0 == TrimStartIndex(s, 1)
        signed == CharAt(s, i0) \in {"+", "-"}
        neg == CharAt(s, i0) = "-"
        i1 == IF signed THEN i0 + 1 ELSE i0
        d1 == DigitRun(s, i1)
        i2 == i1 + d1
        dot == CharAt(s, i2) = "."
        d2 == IF dot THEN DigitRun(s, i2 + 1) ELSE 0
        i3 == IF dot THEN i2 + 1 + d2 ELSE i2
        isE == CharAt(s, i3) \in {"e", "E"}
        eSigned == CharAt(s, i3 + 1) \in {"+", "-"}
        eNeg == CharAt(s, i3 + 1) = "-"
        i4 == IF eSigned THEN i3 + 2 ELSE i3 + 1
        d3 == IF isE THEN DigitRun(s, i4) ELSE 0
        ex == IF eNeg THEN 0 - DigitsValue(s, i4, d3) ELSE DigitsValue(s, i4, d3)
        mant == DigitsValue(s, i1, d1) * Pow10(d2) + DigitsValue(s, i2 + 1, d2)
    IN IF StartsAt(s, INFINITY, i1) THEN Infinite(neg)
       ELSE IF d1 = 0 /\ d2 = 0 THEN NaN
            ELSE Finite(neg, mant, ex - d2)
    : s \in {str}})

\* parseMetricToNumber without the unit multipliers
parseMetricNoUnits(value) ==
  IF value = <<>> THEN Zero
  ELSE LET parsed == parseFloat(RemoveChars(value, {","}))
       IN IF IsNaN(parsed) THEN Zero ELSE parsed

(***************************************************************************)
(* parseMetricToNumber                                                     *)
(***************************************************************************)
parseMetricToNumber(value) ==
  IF value = <<>> THEN Zero
  ELSE
    LET numStr0 == RemoveChars(value, {","})
        lower == ToLowerCase(numStr0)
        isWan == Includes(numStr0, <<WAN>>) \/ Includes(lower, <<"w">>)
        isK == Includes(lower, <<"k">>)
        isM == Includes(lower, <<"m">>)
        multiplier == IF isWan THEN 10000
                      ELSE IF isK THEN 1000
                      ELSE IF isM THEN 1000000 ELSE 1
        numStr == IF isWan THEN RemoveChars(numStr0, {WAN, "w"})
                  ELSE IF isK THEN RemoveChars(numStr0, {"k"})
                  ELSE IF isM THEN RemoveChars(numStr0, {"m"}) ELSE numStr0
    IN Only({IF IsNaN(parsed) THEN Zero ELSE Times(parsed, multiplier)
               : parsed \in {parseFloat(numStr)}})

(***************************************************************************)
(* The rawText effect of ResultsViewer: content extraction                 *)
(***************************************************************************)
ITEMS_PER_PAGE == 10

\* the backtick character and the three-backtick fence
BACKTICK == "U+0060"
FENCE == <<BACKTICK, BACKTICK, BACKTICK>>
SEPARATOR == <<"-", "-", "-">>
USERNAME == <<"u", "s", "e", "r", "n", "a", "m", "e">>
USERNAME_ZH == <<"U+7528", "U+6237", "U+540D">>
NA == <<"N", "/", "A">>

\* the language tags of the pattern
\*   FENCE (?:tsv|csv|plaintext|text|markdown)? NL ([\s\S]*?) FENCE   with flag i
FenceTags ==
  << <<"t", "s", "v">>,
     <<"c", "s", "v">>,
     <<"p", "l", "a", "i", "n", "t", "e", "x", "t">>,
     <<"t", "e", "x", "t">>,
     <<"m", "a", "r", "k", "d", "o", "w", "n">> >>

\* pat, given in lower case, occurs in s at position i under the i flag
StartsAtIgnoreCase(s, pat, i) ==
  /\ i >= 1
  /\ i + Len(pat) - 1 <= Len(s)
  /\ \A j \in 1..Len(pat) : LowerChar(s[i + j - 1]) = pat[j]

\* position of the first interior character when the opening part of the
\* pattern (fence, optional tag, newline) matches at position p of s, else 0
FenceOpenEnd(s, p) ==
  IF ~StartsAt(s, FENCE, p) THEN 0
  ELSE LET tagged == {t \in 1..Len(FenceTags) :
                        StartsAtIgnoreCase(s, FenceTags[t] \o <<NL>>, p + 3)}
       IN IF tagged # {}
          THEN p + 3 + Len(FenceTags[CHOOSE t \in tagged : TRUE]) + 1
          ELSE IF CharAt(s, p + 3) = NL THEN p + 4 ELSE 0

\* position of the first fence at or after position from, else 0 (the lazy
\* [\s\S]*? followed by the closing fence)
FenceClose(s, from) ==
  LET qs == {q \in from..Len(s) : StartsAt(s, FENCE, q)}
  IN IF qs = {} THEN 0 ELSE Only({q \in qs : \A r \in qs : q <= r})

\* the positions at which the whole pattern matches
FenceMatches(s) ==
  {p \in 1..Len(s) :
     \E a \in {FenceOpenEnd(s, p)} : a > 0 /\ FenceClose(s, a) > 0}

\* rawText.match(...): the leftmost match; group1 is the captured interior
codeBlockMatch(str) ==
  Only({
    IF ps = {} THEN [matched |-> FALSE, group1 |-> <<>>]
    ELSE Only({[matched |-> TRUE,
                group1 |-> SubSeq(str, a, FenceClose(str, a) - 1)]
                 : a \in {FenceOpenEnd(str, Only({p \in ps : \A q \in ps : p <= q}))}})
    : ps \in {FenceMatches(str)}})

\* tableStart looking for tabs only
tableStartTabsOnly(lines) ==
  Only({IF hits = {} THEN -1
        ELSE Only({i \in hits : \A j \in hits : i <= j}) - 1
          : hits \in {{i \in 1..Len(lines) : Includes(lines[i], <<TAB>>)}}})

\* lines.findIndex(line => line.includes(TAB) || line.includes(PIPE)),
\* 0-based, -1 when no line qualifies
tableStart(lines) ==
  Only({IF hits = {} THEN -1
        ELSE Only({i \in hits : \A j \in hits : i <= j}) - 1
          : hits \in {{i \in 1..Len(lines) :
                         Includes(lines[i], <<TAB>>) \/ Includes(lines[i], <<PIPE>>)}}})

\* the content the effect extracts from rawText (before trimming)
ExtractContent(raw) ==
  Only({
    IF cb.matched THEN cb.group1
    ELSE Only({
      Only({IF ts # -1 THEN Join(SubSeq(lines, ts + 1, Len(lines)), <<NL>>)
            ELSE raw
              : ts \in {tableStart(lines)}})
      : lines \in {Split(raw, NL)}})
    : cb \in {codeBlockMatch(raw)}})

(***************************************************************************)
(* Header skip, tokenizer and row assembly                                 *)
(***************************************************************************)
\* startIndex without the header test
startIndexNoSkip(lines) == 0

\* the index of the first line the row loop visits
startIndex(lines) ==
  LET firstLineLower == ToLowerCase(lines[1])
  IN IF Includes(firstLineLower, USERNAME) \/ Includes(firstLineLower, USERNAME_ZH)
     THEN IF Len(lines) > 1 /\ Includes(lines[2], SEPARATOR) THEN 2 ELSE 1
     ELSE 0

\* the tokenizer splitting every line on tabs
TokenizeTabsOnly(line) ==
  Only({[i \in 1..Len(parts) |-> Trim(parts[i])]
          : parts \in {Split(line, TAB)}})

\* the columns of a trimmed line
Tokenize(line) ==
  IF Includes(line, <<PIPE>>)
  THEN LET l1 == IF StartsWith(line, <<PIPE>>) THEN SubSeq(line, 2, Len(line)) ELSE line
           l2 == IF EndsWith(l1, <<PIPE>>) THEN SubSeq(l1, 1, Len(l1) - 1) ELSE l1
       IN Only({[i \in 1..Len(parts) |-> Trim(parts[i])]
                  : parts \in {Split(l2, PIPE)}})
  ELSE Only({[i \in 1..Len(parts) |-> Trim(parts[i])]
               : parts \in {Split(line, TAB)}})

\* AssembleRow without the defaults of the trailing columns
AssembleRowNoDefaults(columns) ==
  LET viewsStr == OrElse(At(columns, 3), <<"0">>)
  IN [username |-> OrElse(At(columns, 0), NA),
      link |-> OrElse(At(columns, 1), <<>>),
      followers |-> OrElse(At(columns, 2), <<>>),
      views |-> viewsStr,
      numericViews |-> parseMetricToNumber(viewsStr),
      contentType |-> At(columns, 4),
      niche |-> At(columns, 5),
      language |-> At(columns, 6),
      genderDist |-> At(columns, 7),
      ageDist |-> At(columns, 8)]

\* the object pushed for an accepted line
AssembleRow(columns) ==
  LET viewsStr == OrElse(At(columns, 3), <<"0">>)
  IN [username |-> OrElse(At(columns, 0), NA),
      link |-> OrElse(At(columns, 1), <<>>),
      followers |-> OrElse(At(columns, 2), <<>>),
      views |-> viewsStr,
      numericViews |-> parseMetricToNumber(viewsStr),
      contentType |-> OrElse(At(columns, 4), <<>>),
      niche |-> OrElse(At(columns, 5), <<>>),
      language |-> OrElse(At(columns, 6), <<>>),
      genderDist |-> OrElse(At(columns, 7), <<>>),
      ageDist |-> OrElse(At(columns, 8), <<>>)]

\* the column gate of the earlier revision of the row loop
MinColumnsRelaxed == 2

\* the column gate of the row loop
MinColumns == 4

\* RowsOfLine without the separator test
RowsOfLineKeepSeparators(lines, i) ==
  Only({
    IF line = <<>> THEN <<>>
    ELSE Only({IF Len(columns) >= MinColumns
               THEN <<[line |-> i, row |-> AssembleRow(columns)]>>
               ELSE <<>>
                 : columns \in {Tokenize(line)}})
    : line \in {Trim(lines[i + 1])}})

\* one iteration of the row loop on lines[i] (0-based i): the rows it pushes,
\* each with the index of the line it was read from
RowsOfLine(lines, i) ==
  Only({
    IF line = <<>> THEN <<>>
    ELSE IF Includes(line, SEPARATOR) THEN <<>>
         ELSE Only({IF Len(columns) >= MinColumns
                    THEN <<[line |-> i, row |-> AssembleRow(columns)]>>
                    ELSE <<>>
                      : columns \in {Tokenize(line)}})
    : line \in {Trim(lines[i + 1])}})

RECURSIVE RowLoopUnshift(_, _)
\* RowLoop with data.unshift in place of data.push
RowLoopUnshift(lines, i) ==
  IF i < Len(lines)
  THEN RowLoopUnshift(lines, i + 1) \o RowsOfLine(lines, i) ELSE <<>>

RECURSIVE RowLoop(_, _)
\* for (let i = startIndex; i < lines.length; i++)
RowLoop(lines, i) ==
  IF i < Len(lines) THEN RowsOfLine(lines, i) \o RowLoop(lines, i + 1) ELSE <<>>

\* Normalize reading group 1 of the match without testing the match for null
NormalizeUnguardedMatch(raw) ==
  Only({
    Only({
      Only({[threw |-> ~cb.matched,
             cleanTsv |-> Trim(cb.group1),
             rows |-> [k \in 1..Len(data) |-> data[k].row],
             lineOf |-> [k \in 1..Len(data) |-> data[k].line]]
              : data \in {IF Len(lines) > 0 /\ cb.matched
                          THEN RowLoop(lines, startIndex(lines)) ELSE <<>>}})
      : lines \in {Split(Trim(cb.group1), NL)}})
    : cb \in {codeBlockMatch(raw)}})

\* the whole effect body on rawText = raw: what it passes to setCleanTsv and
\* setParsedData, and whether the read of lines[0] raised a TypeError
Normalize(raw) ==
  Only({
    Only({
      LET threw == Len(lines) > 0 /\ At(lines, 0) = Undefined
      IN Only({[threw |-> threw,
                cleanTsv |-> clean,
                rows |-> [k \in 1..Len(data) |-> data[k].row],
                lineOf |-> [k \in 1..Len(data) |-> data[k].line]]
                 : data \in {IF Len(lines) > 0 /\ ~threw
                             THEN RowLoop(lines, startIndex(lines)) ELSE <<>>}})
      : lines \in {Split(clean, NL)}})
    : clean \in {Trim(ExtractContent(raw))}})

(***************************************************************************)
(* Header labels and the export                                            *)
(***************************************************************************)
HeaderOrder ==
  <<"index", "username", "link", "followers", "views", "contentType",
    "niche", "language", "genderDist", "ageDist">>

HeaderKeys == {HeaderOrder[i] : i \in 1..Len(HeaderOrder)}

DEFAULT_HEADERS ==
  [index |-> <<"U+7F16", "U+53F7">>,
   username |-> <<"U+7528", "U+6237", "U+540D">>,
   link |-> <<"U+94FE", "U+63A5">>,
   followers |-> <<"U+7C89", "U+4E1D", "U+6570">>,
   views |-> <<"U+6D4F", "U+89C8", "U+6570">>,
   contentType |-> <<"U+5185", "U+5BB9", "U+5F62", "U+5F0F">>,
   niche |-> <<"U+9886", "U+57DF", "/", "U+8D5B", "U+9053">>,
   language |-> <<"U+8BED", "U+8A00">>,
   genderDist |-> <<"U+53D7", "U+4F17", "U+6027", "U+522B">>,
   ageDist |-> <<"U+53D7", "U+4F17", "U+5E74", "U+9F84", "U+5360", "U+6BD4">>]

RECURSIVE NumberToString(_)
\* the decimal text Array.prototype.join gives a non-negative integer
NumberToString(n) ==
  IF n < 10 THEN <<Digits[n + 1]>>
  ELSE NumberToString(n \div 10) \o <<Digits[(n % 10) + 1]>>

\* the cells of the export line of the row at (0-based) position index
ExportCells(row, index) ==
  <<NumberToString(index + 1), row.username, row.link, row.followers,
    row.views, row.contentType, row.niche, row.language, row.genderDist,
    row.ageDist>>

\* generateExportTsv numbering the rows from 0
generateExportTsvZeroBased(hdrs, rows) ==
  Join([i \in 1..Len(HeaderOrder) |-> hdrs[HeaderOrder[i]]], <<TAB>>)
    \o <<NL>>
    \o Join([k \in 1..Len(rows) |->
               Join(<<NumberToString(k - 1)>> \o Tail(ExportCells(rows[k], k - 1)),
                    <<TAB>>)], <<NL>>)

\* generateExportTsv on the header labels hdrs and the rows
generateExportTsv(hdrs, rows) ==
  Only({
    Only({headerRow \o <<NL>> \o bodyRows
            : bodyRows \in {Join([k \in 1..Len(rows) |->
                                    Join(ExportCells(rows[k], k - 1), <<TAB>>)],
                                 <<NL>>)}})
    : headerRow \in {Join([i \in 1..Len(HeaderOrder) |-> hdrs[HeaderOrder[i]]],
                          <<TAB>>)}})

(***************************************************************************)
(* Replies the model can return                                            *)
(***************************************************************************)
\* largest number of lines of a generated table body
MaxLines == 2
\* largest number of pieces of a generated metric string
MaxMetricPieces == 3
\* largest length of a reply generated character by character
MaxChars == 5

LineEmpty == <<>>
LineProse == <<"x">>
LineIndented == <<TAB, "x">>
LineHeader == <<"u", "s", "e", "r", "n", "a", "m", "e", TAB, "l", "i", "n", "k", TAB, "1", TAB, "2">>
LineTab == <<"a", TAB, "b", TAB, "1", TAB, "2", "k">>
LinePipe == <<PIPE, "a", PIPE, "b", PIPE, "1", PIPE, "2", PIPE>>
LineDivider == <<PIPE, "-", "-", "-", PIPE, "-", "-", "-", PIPE, "-", "-", "-", PIPE, "-", "-", "-", PIPE>>
LineRagged == <<"a", TAB, "b">>
LineLeadingTab == <<TAB, "b", TAB, "1", TAB, "2", TAB, "3">>
LineTrailingTab == <<"a", TAB, "b", TAB, "1", TAB>>
LineWide == <<"a", TAB, "b", TAB, "1", TAB, "2", TAB, "3", TAB, TAB, "5", TAB, "6", TAB, "7", TAB, "8", TAB, "9">>
\* a data line whose link holds the separator marker
LineDashLink == <<"a", TAB, "x", "-", "-", "-", "y", TAB, "1", TAB, "2">>
\* a pipe line whose first cell holds a tab
LinePipeTabCell == <<PIPE, "a", TAB, "z", PIPE, "b", PIPE, "1", PIPE, "2", PIPE>>
LineFence == FENCE
LineFenceTsv == FENCE \o <<"t", "s", "v">>

LineSet ==
  {LineEmpty, LineProse, LineIndented, LineHeader, LineTab, LinePipe,
   LineDivider, LineRagged, LineLeadingTab, LineTrailingTab, LineWide,
   LinePipeTabCell, LineDashLink, LineFence, LineFenceTsv}

LineSeqs == UNION {[1..n -> LineSet] : n \in 0..MaxLines}

\* a table body as it is, inside a tsv fence, inside an upper-case fence with
\* prose around it, inside a json fence, and after a json block
Wrappers == 0..4

Wrap(w, body) ==
  CASE w = 0 -> body
    [] w = 1 -> <<BACKTICK, BACKTICK, BACKTICK, "t", "s", "v", NL>> \o body \o <<NL, BACKTICK, BACKTICK, BACKTICK>>
    [] w = 2 -> <<"x", NL, BACKTICK, BACKTICK, BACKTICK, "T", "S", "V", NL>> \o body \o <<NL, BACKTICK, BACKTICK, BACKTICK, NL, "x">>
    [] w = 3 -> <<BACKTICK, BACKTICK, BACKTICK, "j", "s", "o", "n", NL>> \o body \o <<NL, BACKTICK, BACKTICK, BACKTICK>>
    [] w = 4 -> <<BACKTICK, BACKTICK, BACKTICK, "j", "s", "o", "n", NL, "x", NL, BACKTICK, BACKTICK, BACKTICK, NL, BACKTICK, BACKTICK, BACKTICK, "t", "s", "v", NL>> \o body \o <<NL, BACKTICK, BACKTICK, BACKTICK>>

ScenarioA == <<"n", "a", "m", "e", TAB, "l", "i", "n", "k", TAB, "1", "0", "0", "0", TAB, "7", ".", "8", "9", "U+4E07", NL>>
ScenarioB == <<BACKTICK, BACKTICK, BACKTICK, "t", "s", "v", NL, "u", "s", "e", "r", "n", "a", "m", "e", TAB, "l", "i", "n", "k", TAB, "f", "o", "l", "l", "o", "w", "e", "r", "s", TAB, "v", "i", "e", "w", "s", NL, "a", TAB, "b", TAB, "1", TAB, "2", "k", NL, BACKTICK, BACKTICK, BACKTICK>>
ScenarioC == <<PIPE, " ", "u", "s", "e", "r", " ", PIPE, " ", "l", "i", "n", "k", " ", PIPE, " ", "5", "K", " ", PIPE, " ", "1", "0", "K", " ", PIPE, NL, PIPE, "-", "-", "-", PIPE, "-", "-", "-", PIPE, "-", "-", "-", PIPE, "-", "-", "-", PIPE, NL, PIPE, " ", "a", " ", PIPE, " ", "b", " ", PIPE, " ", "1", "K", " ", PIPE, " ", "2", "K", " ", PIPE>>
ScenarioE == <<>>

\* a reply of eleven data lines, one more than a page holds
RECURSIVE Repeat(_, _)
Repeat(line, n) == IF n = 0 THEN <<>> ELSE <<line>> \o Repeat(line, n - 1)
LongReply == Join(Repeat(LineTab, ITEMS_PER_PAGE + 1), <<NL>>)

Scenarios == {ScenarioA, ScenarioB, ScenarioC, ScenarioE, LongReply}

\* every short string over the delimiters, the newline, the dash and a letter
ReplyChars == {TAB, PIPE, NL, "-", "a"}
CharStrings == UNION {[1..n -> ReplyChars] : n \in 0..MaxChars}

Replies ==
  {Wrap(w, Join(ls, <<NL>>)) : w \in Wrappers, ls \in LineSeqs}
    \cup Scenarios \cup CharStrings

MetricPieces ==
  { <<"1">>, <<"5">>, <<"0">>, <<".">>, <<",">>, <<"k">>, <<"K">>, <<"m">>,
    <<"M">>, <<"w">>, <<WAN>>, <<"-">>, <<"e">>, <<"x">>, <<" ">>, INFINITY,
    <<"v", "i", "e", "w", "s">> }

RECURSIVE Concat(_)
Concat(parts) == IF Len(parts) = 0 THEN <<>> ELSE parts[1] \o Concat(Tail(parts))

MetricStrings ==
  {Concat(ps) : ps \in UNION {[1..n -> MetricPieces] : n \in 0..MaxMetricPieces}}

(***************************************************************************)
(* App and processFiles: values                                            *)
(***************************************************************************)
\* the value null of the result and error states
Null == <<"null">>

\* a value that || replaces by its right operand
IsFalsy(v) == v = Undefined \/ v = Null \/ v = <<>>

MSG_API_KEY == <<"A", "P", "I", " ", "K", "e", "y", " ", "i", "s", " ", "m", "i", "s", "s", "i", "n", "g", ".">>
MSG_TOO_LARGE == <<"T", "h", "e", " ", "f", "i", "l", "e", " ", "i", "s", " ", "t", "o", "o", " ", "l", "a", "r", "g", "e", " ", "(", "t", "o", "o", " ", "m", "a", "n", "y", " ", "t", "o", "k", "e", "n", "s", ")", ".", " ", "P", "l", "e", "a", "s", "e", " ", "t", "r", "y", " ", "s", "p", "l", "i", "t", "t", "i", "n", "g", " ", "t", "h", "e", " ", "d", "o", "c", "u", "m", "e", "n", "t", " ", "o", "r", " ", "r", "e", "m", "o", "v", "i", "n", "g", " ", "l", "a", "r", "g", "e", " ", "i", "m", "a", "g", "e", "s", ".">>
MSG_RETRY == <<"F", "a", "i", "l", "e", "d", " ", "t", "o", " ", "p", "r", "o", "c", "e", "s", "s", " ", "f", "i", "l", "e", "s", ".", " ", "P", "l", "e", "a", "s", "e", " ", "t", "r", "y", " ", "a", "g", "a", "i", "n", ".">>
MSG_WENT_WRONG == <<"S", "o", "m", "e", "t", "h", "i", "n", "g", " ", "w", "e", "n", "t", " ", "w", "r", "o", "n", "g", ".">>
MSG_NO_RESPONSE == <<"N", "o", " ", "r", "e", "s", "p", "o", "n", "s", "e", " ", "t", "e", "x", "t", " ", "g", "e", "n", "e", "r", "a", "t", "e", "d", ".">>
TOKEN_PHRASE == <<"t", "o", "k", "e", "n", " ", "c", "o", "u", "n", "t", " ", "e", "x", "c", "e", "e", "d", "s">>

\* messages of the errors generateContent rejects with (Undefined: an error
\* without a message)
ModelErrorMessages ==
  { Undefined,
    <<>>,
    <<"f", "e", "t", "c", "h", " ", "f", "a", "i", "l", "e", "d">>,
    TOKEN_PHRASE,
    <<"T", "h", "e", " ", "i", "n", "p", "u", "t", " ">> \o TOKEN_PHRASE \o <<" ", "t", "h", "e", " ", "m", "a", "x", "i", "m", "u", "m">>,
    <<"T", "o", "k", "e", "n", " ", "C", "o", "u", "n", "t", " ", "E", "x", "c", "e", "e", "d", "s">> }

\* response.text of the replies generateContent resolves with
ModelTexts == {Undefined, <<>>, LineProse, ScenarioA, ScenarioB}

\* values of process.env.API_KEY
ApiKeys == {Undefined, <<>>, <<"k">>}

\* the platforms a user selects, among the ids of PLATFORMS
PlatformChoices == {"Auto-detect", "TikTok"}

FileTypes == {"image", "word", "excel"}

\* largest number of files in the file list
MaxFiles == 2

\* a fresh id, as generateId returns one
generateId(used) == CHOOSE id \in 1..(MaxFiles + 1) : id \notin used

\* the promise of the last processFiles call
NoRequest ==
  [pc |-> "none", failure |-> "none", reads |-> 0, calls |-> 0,
   rawFiles |-> <<>>, platform |-> "", i |-> 0, parts |-> <<>>,
   outcomes |-> <<>>, pending |-> 0]

\* useState initial values of App
AppIdle ==
  /\ API_KEY = <<"k">>
  /\ files = <<>>
  /\ platform = "Auto-detect"
  /\ isProcessing = FALSE
  /\ result = Null
  /\ error = Null
  /\ request = NoRequest

(***************************************************************************)
(* State machine of a mounted ResultsViewer                                *)
(***************************************************************************)
MetricIdle ==
  /\ mValue = <<>>
  /\ mResult = Zero
  /\ mDone = FALSE

\* useState initial values; the effect runs after the first render
Mounted(raw) ==
  /\ rawText = raw
  /\ cleanTsv = <<>>
  /\ parsedData = <<>>
  /\ rowLine = <<>>
  /\ currentPage = 1
  /\ effect = "pending"
  /\ headers = DEFAULT_HEADERS
  /\ isEditingHeaders = FALSE
  /\ activeTab = "table"
  /\ copied = FALSE
  /\ clipboard = Undefined

Init == (\E raw \in Replies : Mounted(raw)) /\ MetricIdle /\ AppIdle

\* RunEffect pushing onto the rows it already holds
RunEffectAppending ==
  /\ effect = "pending"
  /\ \E n \in {Normalize(rawText)} :
        /\ currentPage' = 1
        /\ cleanTsv' = n.cleanTsv
        /\ parsedData' = parsedData \o n.rows
        /\ rowLine' = rowLine \o n.lineOf
        /\ effect' = "done"
  /\ UNCHANGED <<rawText, uiVars, metricVars, appVars>>

\* RunEffect without setCurrentPage(1)
RunEffectKeepsPage ==
  /\ effect = "pending"
  /\ \E n \in {Normalize(rawText)} :
        /\ cleanTsv' = n.cleanTsv
        /\ parsedData' = IF n.threw THEN parsedData ELSE n.rows
        /\ rowLine' = IF n.threw THEN rowLine ELSE n.lineOf
        /\ effect' = IF n.threw THEN "threw" ELSE "done"
  /\ UNCHANGED <<rawText, currentPage, uiVars, metricVars, appVars>>

\* useEffect(() => {...}, [rawText])
RunEffect ==
  /\ effect = "pending"
  /\ \E n \in {Normalize(rawText)} :
        /\ currentPage' = 1
        /\ cleanTsv' = n.cleanTsv
        /\ parsedData' = IF n.threw THEN parsedData ELSE n.rows
        /\ rowLine' = IF n.threw THEN rowLine ELSE n.lineOf
        /\ effect' = IF n.threw THEN "threw" ELSE "done"
  /\ UNCHANGED <<rawText, uiVars, metricVars, appVars>>

\* the parent renders the viewer with another rawText
RawTextChange ==
  /\ effect # "threw"
  /\ \E raw \in Scenarios :
       /\ raw # rawText
       /\ rawText' = raw
  /\ effect' = "pending"
  /\ UNCHANGED <<cleanTsv, parsedData, rowLine, currentPage, uiVars, metricVars, appVars>>

totalPages ==
  (Len(parsedData) + ITEMS_PER_PAGE - 1) \div ITEMS_PER_PAGE

\* parsedData.slice((page - 1) * ITEMS_PER_PAGE, page * ITEMS_PER_PAGE)
currentRows(rows, page) ==
  LET from == (page - 1) * ITEMS_PER_PAGE
      to == IF page * ITEMS_PER_PAGE < Len(rows)
            THEN page * ITEMS_PER_PAGE ELSE Len(rows)
  IN IF from >= to THEN <<>> ELSE SubSeq(rows, from + 1, to)

\* the index shown for the row at (0-based) position idx of a page
globalIndex(page, idx) == (page - 1) * ITEMS_PER_PAGE + idx + 1

handlePrevPage ==
  /\ effect = "done"
  /\ currentPage > 1
  /\ currentPage' = currentPage - 1
  /\ UNCHANGED <<rawText, cleanTsv, parsedData, rowLine, effect, uiVars, metricVars, appVars>>

handleNextPage ==
  /\ effect = "done"
  /\ currentPage < totalPages
  /\ currentPage' = currentPage + 1
  /\ UNCHANGED <<rawText, cleanTsv, parsedData, rowLine, effect, uiVars, metricVars, appVars>>

\* setActiveTab; the Charts button is disabled while there are no rows
setActiveTab ==
  /\ effect = "done"
  /\ \E tab \in {"table", "raw", "charts"} :
       /\ tab # activeTab
       /\ tab = "charts" => Len(parsedData) # 0
       /\ activeTab' = tab
  /\ UNCHANGED <<viewerVars, headers, isEditingHeaders, copied, clipboard, metricVars, appVars>>

\* the Edit Headers and Save buttons of the table tab
setIsEditingHeaders ==
  /\ effect = "done"
  /\ activeTab = "table"
  /\ isEditingHeaders' = ~isEditingHeaders
  /\ UNCHANGED <<viewerVars, headers, activeTab, copied, clipboard, metricVars, appVars>>

\* the header cells a user retypes and the texts typed into them
EditedKeys == {"index", "views"}
HeaderInputs == {<<>>, <<"i", "d">>}

\* handleHeaderChange(key, value), from the input of a header cell
handleHeaderChange ==
  /\ effect = "done"
  /\ activeTab = "table"
  /\ isEditingHeaders
  /\ \E key \in EditedKeys, value \in HeaderInputs :
       /\ headers[key] # value
       /\ headers' = [headers EXCEPT ![key] = value]
  /\ UNCHANGED <<viewerVars, isEditingHeaders, activeTab, copied, clipboard, metricVars, appVars>>

resetHeaders ==
  /\ effect = "done"
  /\ activeTab = "table"
  /\ isEditingHeaders
  /\ headers # DEFAULT_HEADERS
  /\ headers' = DEFAULT_HEADERS
  /\ UNCHANGED <<viewerVars, isEditingHeaders, activeTab, copied, clipboard, metricVars, appVars>>

\* handleCopy: the export goes to navigator.clipboard.writeText
handleCopy ==
  /\ effect = "done"
  /\ \E textToCopy \in {generateExportTsv(headers, parsedData)} :
       clipboard' = textToCopy
  /\ copied' = TRUE
  /\ UNCHANGED <<viewerVars, headers, isEditingHeaders, activeTab, metricVars, appVars>>

\* setTimeout(() => setCopied(false), 2000)
copiedTimeout ==
  /\ copied
  /\ copied' = FALSE
  /\ UNCHANGED <<viewerVars, headers, isEditingHeaders, activeTab, clipboard, metricVars, appVars>>

\* a viewer mounted by App with the reply of one request
Next == RunEffect \/ handlePrevPage \/ handleNextPage

Spec == Init /\ [][Next]_vars

\* a viewer whose rawText prop is changed while it stays mounted
RerenderInit == (\E raw \in Scenarios : Mounted(raw)) /\ MetricIdle /\ AppIdle

RerenderNext ==
  \/ RunEffect
  \/ RawTextChange
  \/ handleCopy
  \/ handlePrevPage
  \/ handleNextPage

SpecRerender == RerenderInit /\ [][RerenderNext]_vars

\* a viewer whose headers are edited and whose rows are copied
ExportReplies == Scenarios \cup {LinePipeTabCell, LineWide, LineProse}

ExportInit == (\E raw \in ExportReplies : Mounted(raw)) /\ MetricIdle /\ AppIdle

ExportNext ==
  \/ RunEffect
  \/ setActiveTab
  \/ setIsEditingHeaders
  \/ handleHeaderChange
  \/ resetHeaders
  \/ handleCopy
  \/ copiedTimeout
  \/ handlePrevPage
  \/ handleNextPage

SpecExport == ExportInit /\ [][ExportNext]_vars

(***************************************************************************)
(* State machine of App: the file list, processFiles and the reply         *)
(***************************************************************************)
\* App renders no ResultsViewer
Unmounted ==
  /\ rawText = <<>>
  /\ cleanTsv = <<>>
  /\ parsedData = <<>>
  /\ rowLine = <<>>
  /\ currentPage = 1
  /\ effect = "unmounted"
  /\ headers = DEFAULT_HEADERS
  /\ isEditingHeaders = FALSE
  /\ activeTab = "table"
  /\ copied = FALSE
  /\ clipboard = Undefined

\* the render of App after the step: {result && <ResultsViewer rawText={result} />}
\* mounts a viewer for a truthy result and renders none otherwise
RenderResults(res) ==
  /\ rawText' = IF IsFalsy(res) THEN <<>> ELSE res
  /\ cleanTsv' = <<>>
  /\ parsedData' = <<>>
  /\ rowLine' = <<>>
  /\ currentPage' = 1
  /\ effect' = IF IsFalsy(res) THEN "unmounted" ELSE "pending"
  /\ headers' = DEFAULT_HEADERS
  /\ isEditingHeaders' = FALSE
  /\ activeTab' = "table"
  /\ copied' = FALSE
  /\ UNCHANGED clipboard

AppInit ==
  /\ API_KEY \in ApiKeys
  /\ files = <<>>
  /\ platform = "Auto-detect"
  /\ isProcessing = FALSE
  /\ result = Null
  /\ error = Null
  /\ request = NoRequest
  /\ Unmounted
  /\ MetricIdle

RECURSIVE NewFiles(_, _)
\* the UploadFile objects made for files of the given types
NewFiles(types, used) ==
  IF types = <<>> THEN <<>>
  ELSE LET id == generateId(used)
       IN <<[id |-> id, fileType |-> types[1]]>>
            \o NewFiles(Tail(types), used \cup {id})

FileIds == {files[i].id : i \in 1..Len(files)}

\* handleFileChange: the file input is disabled while processing
handleFileChange ==
  /\ ~isProcessing
  /\ \E n \in 1..(MaxFiles - Len(files)) :
       \E types \in [1..n -> FileTypes] :
          files' = files \o NewFiles(types, FileIds)
  /\ UNCHANGED <<API_KEY, platform, isProcessing, result, error, request,
                 viewerVars, uiVars, metricVars>>

\* the disabled prop App passes to ImageUploader; the paste listener is
\* registered again by the effect on [disabled], before the next event
disabled == isProcessing

\* the clipboard items of a paste: a file of a supported type, or an item
\* that is no file or has no supported type
PasteKinds == FileTypes \cup {"none"}

\* handlePaste without the test of disabled
handlePasteNoGuard ==
  \E n \in 1..(MaxFiles - Len(files)) :
     \E items \in [1..n -> PasteKinds] :
        \E newFiles \in {NewFiles(SelectSeq(items, LAMBDA k : k # "none"), FileIds)} :
           IF Len(newFiles) = 0
           THEN UNCHANGED vars
           ELSE /\ files' = files \o newFiles
                /\ UNCHANGED <<API_KEY, platform, isProcessing, result, error,
                               request, viewerVars, uiVars, metricVars>>

\* handlePaste, the paste listener of the window
handlePaste ==
  IF disabled
  THEN UNCHANGED vars
  ELSE \E n \in 1..(MaxFiles - Len(files)) :
          \E items \in [1..n -> PasteKinds] :
             \E newFiles \in {NewFiles(SelectSeq(items, LAMBDA k : k # "none"), FileIds)} :
                IF Len(newFiles) = 0
                THEN UNCHANGED vars
                ELSE /\ files' = files \o newFiles
                     /\ UNCHANGED <<API_KEY, platform, isProcessing, result, error,
                                    request, viewerVars, uiVars, metricVars>>

\* removeFile(id): the remove buttons are not rendered while processing
removeFile ==
  /\ ~isProcessing
  /\ \E id \in FileIds : files' = SelectSeq(files, LAMBDA f : f.id # id)
  /\ UNCHANGED <<API_KEY, platform, isProcessing, result, error, request,
                 viewerVars, uiVars, metricVars>>

\* the platform selector, disabled while processing
setPlatform ==
  /\ ~isProcessing
  /\ \E p \in PlatformChoices : p # platform /\ platform' = p
  /\ UNCHANGED <<API_KEY, files, isProcessing, result, error, request,
                 viewerVars, uiVars, metricVars>>

\* handleReset: Clear All is rendered for a non-empty file list and disabled
\* while processing
handleReset ==
  /\ Len(files) > 0
  /\ ~isProcessing
  /\ files' = <<>>
  /\ result' = Null
  /\ error' = Null
  /\ platform' = "Auto-detect"
  /\ RenderResults(Null)
  /\ UNCHANGED <<API_KEY, isProcessing, request, metricVars>>

\* the promise processFiles returns for the current files and platform: it
\* is rejected before the loop over the files when the API key is missing
processFilesCall ==
  IF IsFalsy(API_KEY)
  THEN [NoRequest EXCEPT !.pc = "noKey",
                         !.rawFiles = files,
                         !.platform = platform,
                         !.pending = request.pending + 1]
  ELSE [NoRequest EXCEPT !.pc = "reading",
                         !.rawFiles = files,
                         !.platform = platform,
                         !.i = 1,
                         !.pending = request.pending + 1]

\* handleProcess leaving the stored result in place
handleProcessKeepsResult ==
  /\ ~isProcessing
  /\ IF Len(files) = 0
     THEN UNCHANGED vars
     ELSE /\ isProcessing' = TRUE
          /\ error' = Null
          /\ request' = processFilesCall
          /\ UNCHANGED <<API_KEY, files, platform, result, viewerVars, uiVars, metricVars>>

\* handleProcess up to the await of processFiles; Start Extraction is
\* disabled while processing
handleProcess ==
  /\ ~isProcessing
  /\ IF Len(files) = 0
     THEN UNCHANGED vars
     ELSE /\ isProcessing' = TRUE
          /\ error' = Null
          /\ result' = Null
          /\ RenderResults(Null)
          /\ request' = processFilesCall
          /\ UNCHANGED <<API_KEY, files, platform, metricVars>>

\* the parts one file contributes: read says whether reading it succeeded,
\* images how many pictures a Word document holds
PartsOf(file, read, images) ==
  CASE file.fileType = "word" ->
         IF read
         THEN <<[kind |-> "text", file |-> file.id]>>
                \o [k \in 1..images |-> [kind |-> "inlineData", file |-> file.id]]
         ELSE <<[kind |-> "placeholder", file |-> file.id]>>
    [] file.fileType = "excel" ->
         IF read THEN <<[kind |-> "text", file |-> file.id]>>
         ELSE <<[kind |-> "placeholder", file |-> file.id]>>
    [] OTHER ->
         IF read THEN <<[kind |-> "inlineData", file |-> file.id]>> ELSE <<>>

\* the prompt part pushed after the loop
PromptPart == [kind |-> "prompt", file |-> 0]

\* ReadFile rejecting the call when a file cannot be read
ReadFileAborting ==
  /\ request.pc = "reading"
  /\ \E read \in BOOLEAN, images \in 0..1 :
       \E ps \in {request.parts
                    \o PartsOf(request.rawFiles[request.i], read, images)} :
          /\ request' =
               IF ~read
               THEN [NoRequest EXCEPT !.pc = "rejected", !.failure = "other",
                                      !.reads = request.reads + 1,
                                      !.pending = request.pending - 1]
               ELSE IF request.i < Len(request.rawFiles)
                    THEN [request EXCEPT !.parts = ps,
                                         !.outcomes = Append(request.outcomes, read),
                                         !.reads = request.reads + 1,
                                         !.i = request.i + 1]
                    ELSE [request EXCEPT !.parts = ps \o <<PromptPart>>,
                                         !.outcomes = Append(request.outcomes, read),
                                         !.reads = request.reads + 1,
                                         !.calls = request.calls + 1,
                                         !.pc = "calling"]
          /\ isProcessing' = read
          /\ error' = IF read THEN error ELSE MSG_RETRY
  /\ UNCHANGED <<API_KEY, files, platform, result, viewerVars, uiVars, metricVars>>

\* one iteration of the loop over the files of processFiles; after the last
\* file the prompt is pushed and generateContent is called
ReadFile ==
  /\ request.pc = "reading"
  /\ \E read \in BOOLEAN, images \in 0..1 :
       \E ps \in {request.parts
                    \o PartsOf(request.rawFiles[request.i], read, images)} :
          request' =
            IF request.i < Len(request.rawFiles)
            THEN [request EXCEPT !.parts = ps,
                                 !.outcomes = Append(request.outcomes, read),
                                 !.reads = request.reads + 1,
                                 !.i = request.i + 1]
            ELSE [request EXCEPT !.parts = ps \o <<PromptPart>>,
                                 !.outcomes = Append(request.outcomes, read),
                                 !.reads = request.reads + 1,
                                 !.calls = request.calls + 1,
                                 !.pc = "calling"]
  /\ UNCHANGED <<API_KEY, files, platform, isProcessing, result, error,
                 viewerVars, uiVars, metricVars>>

\* the outcome of the last processFiles call, without its files and parts
Settled(pc, failure) ==
  [NoRequest EXCEPT !.pc = pc, !.failure = failure,
                    !.reads = request.reads, !.calls = request.calls,
                    !.pending = request.pending - 1]

\* the rejection for the missing API key reaches handleProcess: its catch
\* block stores the message and its finally block ends the processing
MissingKeyRejects ==
  /\ request.pc = "noKey"
  /\ error' = OrElse(MSG_API_KEY, MSG_WENT_WRONG)
  /\ request' = Settled("rejected", "apiKey")
  /\ isProcessing' = FALSE
  /\ UNCHANGED <<API_KEY, files, platform, result, viewerVars, uiVars, metricVars>>

\* generateContent resolves: processFiles returns response.text or the
\* fallback text, handleProcess stores it
ModelResolves ==
  /\ request.pc = "calling"
  /\ \E text \in ModelTexts :
       \E textResponse \in {IF IsFalsy(text) THEN MSG_NO_RESPONSE ELSE text} :
          /\ result' = textResponse
          /\ RenderResults(textResponse)
  /\ isProcessing' = FALSE
  /\ request' = Settled("fulfilled", "none")
  /\ UNCHANGED <<API_KEY, files, platform, error, metricVars>>

\* the message of the model error names the exceeded token count
MentionsTokenCount(message) ==
  message # Undefined /\ Includes(message, TOKEN_PHRASE)

\* the catch block of the earlier revision of processFiles
processFilesCatchEarlier(message) == MSG_RETRY

\* the message of the Error the catch block of processFiles throws for a
\* model error with the given message
processFilesCatch(message) ==
  IF ~IsFalsy(message) /\ Includes(message, TOKEN_PHRASE)
  THEN MSG_TOO_LARGE
  ELSE MSG_RETRY

\* ModelRejects without the finally block of handleProcess
ModelRejectsNoFinally ==
  /\ request.pc = "calling"
  /\ \E message \in ModelErrorMessages :
       /\ error' = OrElse(processFilesCatch(message), MSG_WENT_WRONG)
       /\ request' = Settled("rejected",
                             IF MentionsTokenCount(message) THEN "tokens"
                             ELSE "other")
  /\ UNCHANGED <<API_KEY, files, platform, isProcessing, result, viewerVars, uiVars, metricVars>>

\* generateContent rejects: processFiles rethrows, handleProcess stores the
\* message
ModelRejects ==
  /\ request.pc = "calling"
  /\ \E message \in ModelErrorMessages :
       /\ error' = OrElse(processFilesCatch(message), MSG_WENT_WRONG)
       /\ request' = Settled("rejected",
                             IF MentionsTokenCount(message) THEN "tokens"
                             ELSE "other")
  /\ isProcessing' = FALSE
  /\ UNCHANGED <<API_KEY, files, platform, result, viewerVars, uiVars, metricVars>>

AppNext ==
  \/ handleFileChange
  \/ handlePaste
  \/ removeFile
  \/ setPlatform
  \/ handleProcess
  \/ MissingKeyRejects
  \/ ReadFile
  \/ ModelResolves
  \/ ModelRejects
  \/ handleReset
  \/ RunEffect

SpecApp == AppInit /\ [][AppNext]_vars

(***************************************************************************)
(* parseMetricToNumber applied to one string                               *)
(***************************************************************************)
MetricInit ==
  /\ Mounted(<<>>)
  /\ mValue \in MetricStrings
  /\ mResult = Zero
  /\ mDone = FALSE
  /\ AppIdle

CallParseMetric ==
  /\ ~mDone
  /\ mResult' = parseMetricToNumber(mValue)
  /\ mDone' = TRUE
  /\ UNCHANGED <<mValue, viewerVars, uiVars, appVars>>

MetricNext == CallParseMetric

SpecMetric == MetricInit /\ [][MetricNext]_vars

(***************************************************************************)
(* Properties                                                              *)
(***************************************************************************)
IsString(s) == s # Undefined /\ \A i \in 1..Len(s) : s[i] # Undefined[1]

IsNumber(x) == x.k \in {"nan", "inf", "fin"} /\ x.m >= 0

RowFields ==
  {"username", "link", "followers", "views", "numericViews", "contentType",
   "niche", "language", "genderDist", "ageDist"}

IsRow(r) ==
  /\ DOMAIN r = RowFields
  /\ \A f \in RowFields \ {"numericViews"} : IsString(r[f])
  /\ IsNumber(r.numericViews)

CleanLines == Split(cleanTsv, NL)

\* line i (0-based) of the canonical text passes every test of the row loop
Accepted(i) ==
  LET line == Trim(CleanLines[i + 1])
  IN /\ line # <<>>
     /\ ~Includes(line, SEPARATOR)
     /\ Len(Tokenize(line)) >= 4

\* C1: for every reply the effect completes without raising and leaves a
\* canonical text string and a (possibly empty) sequence of well-formed rows
C1_NormalizerTotal ==
  /\ effect \in {"pending", "done"}
  /\ effect = "done" =>
       /\ IsString(cleanTsv)
       /\ \A k \in 1..Len(parsedData) : IsRow(parsedData[k])

C1_Witness ==
  /\ effect = "done"
  /\ Len(parsedData) >= 1
  /\ \E k \in 1..Len(parsedData) : parsedData[k].contentType = <<>>

\* C2: normalizing the canonical text again as a reply yields the same rows
C2_Idempotent ==
  effect = "done" => Normalize(cleanTsv).rows = parsedData

\* C3: Scenario C yields exactly one row, read from the third line, whose
\* username is "a"
C3_ScenarioC ==
  (effect = "done" /\ rawText = ScenarioC) =>
     /\ Len(parsedData) = 1
     /\ rowLine = <<2>>
     /\ parsedData[1].username = <<"a">>

\* C4: every row was read from exactly one line of the canonical text, and
\* that line is non-empty after trimming, has no separator marker and has at
\* least 4 columns; when no line has 4 columns there are no rows
C4_RowsFromAcceptedLines ==
  effect = "done" =>
     /\ Len(rowLine) = Len(parsedData)
     /\ \A k \in 1..Len(parsedData) :
          /\ rowLine[k] \in 0..(Len(CleanLines) - 1)
          /\ Accepted(rowLine[k])
          /\ parsedData[k] = AssembleRow(Tokenize(Trim(CleanLines[rowLine[k] + 1])))
     /\ \A j, k \in 1..Len(parsedData) : rowLine[j] = rowLine[k] => j = k
     /\ (\A i \in 1..Len(CleanLines) : Len(Tokenize(Trim(CleanLines[i]))) < 4)
          => parsedData = <<>>

C4_Witness ==
  /\ effect = "done"
  /\ Len(CleanLines) = 2
  /\ Len(Tokenize(Trim(CleanLines[1]))) = 2
  /\ rowLine = <<1>>

\* C5: the rows are in source line order: the line of row k is strictly
\* before the line of row k+1, and every accepted line from the start index
\* on has its row
C5_OrderPreserved ==
  effect = "done" =>
     /\ \A k \in 1..(Len(rowLine) - 1) : rowLine[k] < rowLine[k + 1]
     /\ \A i \in startIndex(CleanLines)..(Len(CleanLines) - 1) :
          Accepted(i) => \E k \in 1..Len(rowLine) :
                            /\ rowLine[k] = i
                            /\ parsedData[k] =
                                 AssembleRow(Tokenize(Trim(CleanLines[i + 1])))

C5_Witness ==
  /\ effect = "done"
  /\ Len(parsedData) = 2
  /\ parsedData[1] # parsedData[2]

\* C6: parseMetricToNumber returns a non-negative finite number for every
\* string
C6_MetricNonNegativeFinite ==
  mDone => IsFiniteNum(mResult) /\ IsNonNegative(mResult)

\* the multiplier of a unit character: the ten-thousand unit, k, m
UnitMultiplier(c) ==
  IF LowerChar(c) \in {WAN, "w"} THEN 10000
  ELSE IF LowerChar(c) = "k" THEN 1000
  ELSE IF LowerChar(c) = "m" THEN 1000000 ELSE 1

\* the value C7 states: the numeric prefix times the multiplier of the
\* trailing unit suffix, 0 without a numeric prefix
TrailingSuffixValue(value) ==
  LET numStr == RemoveChars(value, {","})
      last == CharAt(numStr, Len(numStr))
      multiplier == UnitMultiplier(last)
      body == IF multiplier = 1 THEN numStr
              ELSE SubSeq(numStr, 1, Len(numStr) - 1)
      parsed == parseFloat(body)
  IN IF IsNaN(parsed) THEN Zero ELSE Times(parsed, multiplier)

\* C7: the result is the numeric prefix times the multiplier selected by the
\* trailing unit suffix only; a unit letter elsewhere changes nothing
C7_TrailingSuffixOnly ==
  mDone => mResult = TrailingSuffixValue(mValue)

\* C8: Scenario A yields exactly one row whose views text is kept verbatim
\* and whose numeric views are 78900
C8_ScenarioA ==
  (effect = "done" /\ rawText = ScenarioA) =>
     /\ Len(parsedData) = 1
     /\ parsedData[1].views = <<"7", ".", "8", "9", "U+4E07">>
     /\ parsedData[1].numericViews = IntNum(78900)

C8_Witness == effect = "done" /\ rawText = ScenarioA

\* a tsv fence around a header line that begins username TAB link TAB and
\* one data line
FencedHeaderAndData ==
  {ScenarioB} \cup
  {Wrap(1, Join(<<LineHeader, d>>, <<NL>>)) : d \in {LineTab, LinePipe}}

\* C9: Scenario B: the header line is skipped and exactly one row is
\* produced, from the data line
C9_ScenarioB ==
  (effect = "done" /\ rawText \in FencedHeaderAndData) =>
     /\ Len(CleanLines) = 2
     /\ StartsWith(CleanLines[1], USERNAME \o <<TAB>>)
     /\ Len(parsedData) = 1
     /\ rowLine = <<1>>

C9_Witness == effect = "done" /\ rawText = ScenarioB

\* C10: the empty reply yields an empty canonical text and no rows, without
\* raising
C10_ScenarioE ==
  rawText = ScenarioE =>
     /\ effect # "threw"
     /\ effect = "done" => cleanTsv = <<>> /\ parsedData = <<>>

C10_Witness == effect = "done" /\ rawText = ScenarioE

\* the columns of a line of the canonical text as its delimiters lay them
\* out: a tab line has one column per tab-separated piece of the line itself
SourceColumns(line) ==
  IF Includes(line, <<PIPE>>) THEN Tokenize(Trim(line))
  ELSE Only({[i \in 1..Len(parts) |-> Trim(parts[i])]
               : parts \in {Split(line, TAB)}})

\* C11: every row takes username, link, followers and views from columns 0,
\* 1, 2 and 3 of its source line (username N/A and views 0 when empty); an
\* empty first column does not shift the other columns left
C11_PositionalAssembly ==
  effect = "done" =>
     \A k \in 1..Len(parsedData) :
        \E cols \in {SourceColumns(CleanLines[rowLine[k] + 1])} :
           /\ parsedData[k].username = OrElse(At(cols, 0), NA)
           /\ parsedData[k].link = OrElse(At(cols, 1), <<>>)
           /\ parsedData[k].followers = OrElse(At(cols, 2), <<>>)
           /\ parsedData[k].views = OrElse(At(cols, 3), <<"0">>)

\* a column that is missing or empty
IsBlank(c) == c = Undefined \/ c = <<>>

\* the first n elements of a sequence
Take(seq, n) == SubSeq(seq, 1, IF Len(seq) < n THEN Len(seq) ELSE n)

\* C12: a row whose source column 4, 7 or 8 is missing or empty has a
\* non-empty generic content type and N/A as gender and age distribution;
\* a missing or empty column 5 or 6 gives the empty string; columns after
\* index 8 do not affect the row
C12_TrailingDefaults ==
  effect = "done" =>
     \A k \in 1..Len(parsedData) :
        \E cols \in {Tokenize(Trim(CleanLines[rowLine[k] + 1]))} :
           /\ IsBlank(At(cols, 4)) => parsedData[k].contentType # <<>>
           /\ IsBlank(At(cols, 7)) => parsedData[k].genderDist = NA
           /\ IsBlank(At(cols, 8)) => parsedData[k].ageDist = NA
           /\ IsBlank(At(cols, 5)) => parsedData[k].niche = <<>>
           /\ IsBlank(At(cols, 6)) => parsedData[k].language = <<>>
           /\ parsedData[k] = AssembleRow(Take(cols, 9))

\* the number of delimiters of a line of the canonical text: its tabs, or
\* for a pipe line its pipes other than one leading and one trailing pipe
DelimiterCount(line) ==
  IF Includes(line, <<PIPE>>)
  THEN Only({Cardinality({i \in 1..Len(t) : t[i] = PIPE})
               - (IF t[1] = PIPE THEN 1 ELSE 0)
               - (IF Len(t) >= 2 /\ t[Len(t)] = PIPE THEN 1 ELSE 0)
                : t \in {Trim(line)}})
  ELSE Cardinality({i \in 1..Len(line) : line[i] = TAB})

\* C13: a data line with k delimiters tokenizes into k + 1 columns, empty
\* trailing columns included, and produces its row when k + 1 >= 4 (stated
\* for the lines that begin with a character of their first column)
C13_TrailingColumnsKept ==
  effect = "done" =>
     \A i \in startIndex(CleanLines)..(Len(CleanLines) - 1) :
        \E line \in {CleanLines[i + 1]} :
           (/\ Trim(line) # <<>>
            /\ ~Includes(line, SEPARATOR)
            /\ ~IsWhiteSpace(line[1])) =>
              /\ Len(Tokenize(Trim(line))) = DelimiterCount(line) + 1
              /\ DelimiterCount(line) + 1 >= 4 =>
                    \E k \in 1..Len(rowLine) : rowLine[k] = i

\* text is the decimal numeral of the positive integer n
IsDecimalOf(text, n) ==
  /\ Len(text) >= 1
  /\ \A i \in 1..Len(text) : IsDigit(text[i])
  /\ text[1] # "0"
  /\ DigitsValue(text, 1, Len(text)) = n

\* text is the header line of the labels hdrs followed by one line per row,
\* in row order, the k-th one beginning with the numeral of k
ExportLaidOut(text, hdrs, rows) ==
  \E lines \in {Split(text, NL)} :
     /\ lines[1] = Join([i \in 1..10 |-> hdrs[HeaderOrder[i]]], <<TAB>>)
     /\ Len(lines) = 1 + (IF Len(rows) = 0 THEN 1 ELSE Len(rows))
     /\ Len(rows) = 0 => lines[2] = <<>>
     /\ \A k \in 1..Len(rows) :
          \E first \in {Split(lines[k + 1], TAB)[1]} :
             /\ IsDecimalOf(first, k)
             /\ lines[k + 1] =
                  Join(<<first, rows[k].username, rows[k].link,
                         rows[k].followers, rows[k].views, rows[k].contentType,
                         rows[k].niche, rows[k].language, rows[k].genderDist,
                         rows[k].ageDist>>, <<TAB>>)

\* C14: a step that writes the export writes the tab-joined line of the 10
\* current header labels followed by one tab-joined line per row in row
\* order, the k-th one numbered k, and leaves the rows as they were
C14_ExportLayout ==
  [][clipboard' # clipboard =>
       /\ ExportLaidOut(clipboard', headers, parsedData)
       /\ parsedData' = parsedData]_vars

C14_Witness ==
  /\ copied
  /\ Len(parsedData) = ITEMS_PER_PAGE + 1
  /\ headers.index = <<"i", "d">>
  /\ StartsWith(clipboard, <<"i", "d", TAB>>)
  /\ Includes(clipboard, <<NL, "1", "1", TAB, "a", TAB>>)

\* C15: once the effect has run for the current rawText, the canonical text
\* and the rows are those of the current rawText alone, whatever replies the
\* viewer held before
C15_LatestReplyOnly ==
  effect = "done" =>
     \E n \in {Normalize(rawText)} :
        /\ cleanTsv = Trim(ExtractContent(rawText))
        /\ parsedData = n.rows
        /\ rowLine = n.lineOf

\* the viewer shows Scenario A after it showed, and exported, the long reply
C15_Witness ==
  /\ effect = "done"
  /\ rawText = ScenarioA
  /\ Len(parsedData) = 1
  /\ clipboard # Undefined
  /\ Includes(clipboard, <<NL, "1", "1", TAB>>)

\* the message shown for each kind of failure of processFiles
FailureMessage(failure) ==
  CASE failure = "apiKey" -> MSG_API_KEY
    [] failure = "tokens" -> MSG_TOO_LARGE
    [] failure = "other" -> MSG_RETRY
    [] OTHER -> Null

\* C16: a processFiles call that fails stores exactly one of three distinct
\* messages as the error: the configuration message when the API key is
\* missing, raised before any file is read or any model call is made, the
\* too-large message when the model error names the exceeded token count,
\* and the retry message for every other model error
C16_FailureMessages ==
  [][/\ (request'.pc = "rejected" /\ request' # request) =>
          /\ request'.failure \in {"apiKey", "tokens", "other"}
          /\ error' = FailureMessage(request'.failure)
     /\ error' # Null =>
          /\ request'.pc = "rejected"
          /\ error' = FailureMessage(request'.failure)
          /\ request'.failure = "apiKey" <=> IsFalsy(API_KEY)
          /\ request'.failure = "apiKey" =>
                request'.reads = 0 /\ request'.calls = 0
          /\ request'.failure # "apiKey" =>
                request'.reads >= 1 /\ request'.calls = 1
     /\ Cardinality({MSG_API_KEY, MSG_TOO_LARGE, MSG_RETRY}) = 3]_vars

C16_Witness ==
  /\ error = MSG_TOO_LARGE
  /\ request.pc = "rejected"
  /\ request.failure = "tokens"
  /\ request.reads = 2

\* the results view is on screen, and its table shows the zero-row line
ViewerShown == effect # "unmounted"
NoDataParsedShown == ViewerShown /\ activeTab = "table" /\ Len(parsedData) = 0

\* C17: result and error are never both set; the results view, its zero-row
\* line included, is on screen only for the reply of a fulfilled request and
\* never together with an error
C17_ResultXorError ==
  /\ ~(result # Null /\ error # Null)
  /\ ViewerShown =>
       /\ result # Null
       /\ rawText = result
       /\ request.pc = "fulfilled"
  /\ NoDataParsedShown => error = Null /\ request.pc = "fulfilled"
  /\ error # Null => ~ViewerShown /\ request.pc = "rejected"

C17_Witness ==
  /\ effect = "done"
  /\ NoDataParsedShown
  /\ result = LineProse
  /\ error = Null

\* the tags an opening fence may carry: none, or one of the five of FenceTags
IsTableTag(tag) ==
  \/ tag = <<>>
  \/ \E t \in 1..Len(FenceTags) : ToLowerCase(tag) = FenceTags[t]

\* position of the first newline of s at or after position from, else 0
NewlineFrom(s, from) ==
  LET qs == {q \in from..Len(s) : s[q] = NL}
  IN IF qs = {} THEN 0 ELSE Only({q \in qs : \A r \in qs : q <= r})

\* the fenced blocks of s: the fences pair up in order of occurrence, the
\* first of a pair opening a block and the second closing it; a block has
\* the tag that follows its opening fence on the same line and the interior
\* between that line and its closing fence
FencedBlocks(s) ==
  Only({
    LET block(j) ==
          LET open == SeparatorAt(fences, 2 * j - 1, Len(s))
              close == SeparatorAt(fences, 2 * j, Len(s))
              eol == NewlineFrom(s, open + 3)
          IN IF eol = 0 \/ eol > close
             THEN [tag |-> Undefined, interior |-> <<>>]
             ELSE [tag |-> SubSeq(s, open + 3, eol - 1),
                   interior |-> SubSeq(s, eol + 1, close - 1)]
    IN [j \in 1..(Cardinality(fences) \div 2) |-> block(j)]
    : fences \in {{p \in 1..Len(s) : StartsAt(s, FENCE, p)}}})

\* C18: when the reply has a fenced block with no tag or a table tag, the
\* canonical text is the trimmed interior of the first such block, also
\* after an earlier block with another tag
C18_FirstTableBlock ==
  effect = "done" =>
     \E blocks \in {FencedBlocks(rawText)} :
        \A j \in 1..Len(blocks) :
           (/\ blocks[j].tag # Undefined
            /\ IsTableTag(blocks[j].tag)
            /\ \A i \in 1..(j - 1) :
                  blocks[i].tag = Undefined \/ ~IsTableTag(blocks[i].tag))
             => cleanTsv = Trim(blocks[j].interior)

\* position of the first character of the first line of s that holds a tab
\* or a pipe; 0 when no line does
FirstTableLineStart(s) ==
  LET delims == {p \in 1..Len(s) : s[p] \in {TAB, PIPE}}
  IN IF delims = {} THEN 0
     ELSE LET d == Only({p \in delims : \A q \in delims : p <= q})
              nls == {q \in 1..(d - 1) : s[q] = NL}
          IN IF nls = {} THEN 1
             ELSE Only({q \in nls : \A r \in nls : r <= q}) + 1

\* C19: when the fence pattern does not match, the canonical text is the
\* trimmed suffix of the reply that begins at its first line with a tab or a
\* pipe, and the whole trimmed reply when no line has one
C19_FallbackLineScan ==
  (effect = "done" /\ ~codeBlockMatch(rawText).matched) =>
     \E p \in {FirstTableLineStart(rawText)} :
        cleanTsv = IF p = 0 THEN Trim(rawText)
                   ELSE Trim(SubSeq(rawText, p, Len(rawText)))

C19_Witness ==
  /\ effect = "done"
  /\ rawText = <<"a", NL, PIPE, NL, "a">>
  /\ cleanTsv = <<PIPE, NL, "a">>

\* a line with a column-name token, and a line with any header token
HasColumnToken(line) ==
  \E lower \in {ToLowerCase(line)} :
     Includes(lower, USERNAME) \/ Includes(lower, USERNAME_ZH)
HasHeaderToken(line) == HasColumnToken(line) \/ Includes(line, SEPARATOR)

\* the start index as C20 states it
ClaimedStartIndex(lines) ==
  IF HasHeaderToken(lines[1])
  THEN IF Len(lines) > 1 /\ Includes(lines[2], SEPARATOR) THEN 2 ELSE 1
  ELSE 0

RECURSIVE ScanPieces(_, _, _)
\* the pieces of s between occurrences of sep, read left to right from
\* position i on
ScanPieces(s, sep, i) ==
  LET hits == {j \in i..Len(s) : s[j] = sep}
  IN IF hits = {} THEN <<SubSeq(s, i, Len(s))>>
     ELSE LET j == Only({h \in hits : \A g \in hits : h <= g})
          IN <<SubSeq(s, i, j - 1)>> \o ScanPieces(s, sep, j + 1)

\* a trimmed line without one leading pipe and without one trailing pipe
WithoutOuterPipes(line) ==
  LET from == IF Len(line) >= 1 /\ line[1] = PIPE THEN 2 ELSE 1
      to == IF Len(line) >= from /\ line[Len(line)] = PIPE
            THEN Len(line) - 1 ELSE Len(line)
  IN SubSeq(line, from, to)

\* the columns C21 states for a trimmed line
PolicyColumns(line) ==
  LET pieces == IF \E j \in 1..Len(line) : line[j] = PIPE
                THEN ScanPieces(WithoutOuterPipes(line), PIPE, 1)
                ELSE ScanPieces(line, TAB, 1)
  IN [k \in 1..Len(pieces) |-> Trim(pieces[k])]

\* the lines the row loop tokenizes: from the start index on, trimmed,
\* non-empty and without the separator marker
TokenizedLines ==
  {i \in startIndex(CleanLines)..(Len(CleanLines) - 1) :
     \E line \in {Trim(CleanLines[i + 1])} :
        line # <<>> /\ ~Includes(line, SEPARATOR)}

\* C21: every line the row loop tokenizes is split on pipes only when it
\* holds a pipe, after one leading and one trailing pipe are removed, and on
\* tabs otherwise; the pieces are trimmed and keep their left-to-right
\* order; a pipe line has one column per remaining pipe plus one, whatever
\* tabs it holds; the rows are assembled from these columns
C21_TokenizerPolicy ==
  effect = "done" =>
     /\ \A i \in TokenizedLines :
          \E line \in {Trim(CleanLines[i + 1])} :
             \E cols \in {Tokenize(line)} :
                /\ cols = PolicyColumns(line)
                /\ Len(cols) = DelimiterCount(line) + 1
                /\ \A k \in 1..Len(cols) :
                     cols[k] = Trim(cols[k]) /\ ~Includes(cols[k], <<PIPE>>)
                /\ Len(cols) >= 4 =>
                     \E k \in 1..Len(rowLine) :
                        rowLine[k] = i /\ parsedData[k] = AssembleRow(cols)
     /\ \A k \in 1..Len(rowLine) : rowLine[k] \in TokenizedLines

\* a pipe line with a tab inside its first cell gives a row whose username
\* keeps the tab
C21_Witness ==
  /\ effect = "done"
  /\ cleanTsv = LinePipeTabCell
  /\ Len(parsedData) = 1
  /\ parsedData[1].username = <<"a", TAB, "z">>
  /\ parsedData[1].views = <<"2">>

\* C22: no row comes from a line of the canonical text that holds the
\* separator marker after trimming, wherever the line stands and however
\* many columns it has; so no row has the marker in its name or link
C22_SeparatorLinesDropped ==
  effect = "done" =>
     /\ \A i \in 0..(Len(CleanLines) - 1) :
          Includes(Trim(CleanLines[i + 1]), SEPARATOR) =>
             \A k \in 1..Len(rowLine) : rowLine[k] # i
     /\ \A k \in 1..Len(parsedData) :
          ~Includes(parsedData[k].username, SEPARATOR)
            /\ ~Includes(parsedData[k].link, SEPARATOR)

\* a four-column data line whose link holds the marker, then a data line
C22_Witness ==
  /\ effect = "done"
  /\ cleanTsv = LineDashLink \o <<NL>> \o LineTab
  /\ Len(Tokenize(LineDashLink)) = 4
  /\ Len(parsedData) = 1
  /\ rowLine = <<1>>

\* a processFiles call is in flight
InFlight(r) == r.pc \in {"noKey", "reading", "calling"}

\* a processFiles call has settled
HasSettled(r) == r.pc \in {"fulfilled", "rejected"}

\* C23: a step that starts a request has a non-empty file list, sets
\* isProcessing and clears result and error; the step on which the request
\* settles resets isProcessing and leaves exactly one of result (fulfilled)
\* and error (rejected) set; with an empty file list no step starts a
\* request or changes isProcessing, result or error; isProcessing is true
\* exactly while a request is in flight
C23_ProcessingCycle ==
  [][/\ isProcessing <=> InFlight(request)
     /\ request'.pending > request.pending =>
          /\ Len(files) > 0
          /\ InFlight(request')
          /\ isProcessing' /\ result' = Null /\ error' = Null
          /\ request'.rawFiles = files /\ request'.platform = platform
     /\ request'.pending < request.pending =>
          /\ HasSettled(request')
          /\ ~isProcessing'
          /\ request'.pc = "fulfilled" => result' # Null /\ error' = Null
          /\ request'.pc = "rejected" => error' # Null /\ result' = Null
     /\ request'.pending = request.pending =>
          /\ isProcessing' = isProcessing
          /\ InFlight(request) => result' = result /\ error' = error
     /\ Len(files) = 0 =>
          /\ request'.pending <= request.pending
          /\ ~isProcessing /\ ~isProcessing'
          /\ result' = result /\ error' = error]_vars

\* the request for two files settled by a rejection of the model
C23_Witness ==
  /\ request.pc = "rejected"
  /\ request.failure = "other"
  /\ request.reads = 2
  /\ ~isProcessing
  /\ error = MSG_RETRY
  /\ result = Null
  /\ Len(files) = 2

\* C24: at most one processFiles call is in flight; while isProcessing is
\* true no step changes the file list or the platform, and they are those
\* the call in flight was started with; a second call starts only after the
\* first settled; the reply stored as result belongs to a call started with
\* the files and the platform still shown
C24_SingleRequest ==
  [][/\ request.pending <= 1 /\ request'.pending <= 1
     /\ request'.pending > request.pending =>
          request.pending = 0 /\ ~isProcessing
     /\ isProcessing =>
          /\ files' = files /\ platform' = platform
          /\ request.rawFiles = files /\ request.platform = platform
     /\ (result' # result /\ result' # Null) =>
          /\ request.pc = "calling"
          /\ request.rawFiles = files' /\ request.platform = platform']_vars

\* the reply of a request for two files and the TikTok platform is shown
\* with these two files and this platform
C24_Witness ==
  /\ request.pc = "fulfilled"
  /\ result = ScenarioB
  /\ platform = "TikTok"
  /\ Len(files) = 2
  /\ ~isProcessing

\* page is a page of the table of the rows, total the number of its pages,
\* and the pages show every row once, in order, under its position
PagesWellFormed(rows, page, total) ==
  \E pages \in {(Len(rows) + 9) \div 10} :
     /\ 1 <= page
     /\ page <= (IF pages < 1 THEN 1 ELSE pages)
     /\ pages * 10 >= Len(rows) /\ (pages - 1) * 10 < Len(rows) + (IF Len(rows) = 0 THEN 1 ELSE 0)
     /\ total = pages
     /\ \A p \in 1..pages :
          \E shown \in {currentRows(rows, p)} :
             /\ Len(shown) \in 1..10
             /\ \A idx \in 0..(Len(shown) - 1) :
                  \E g \in {globalIndex(p, idx)} :
                     /\ g \in 1..Len(rows)
                     /\ shown[idx + 1] = rows[g]
                     /\ NumberToString(g) = ExportCells(rows[g], g - 1)[1]
                     /\ p > 1 /\ idx = 0 =>
                          g = globalIndex(p - 1, Len(currentRows(rows, p - 1)) - 1) + 1
     /\ \A g \in 1..Len(rows) :
          Cardinality({<<p, idx>> \in (1..pages) \X (0..9) :
                         idx < Len(currentRows(rows, p)) /\ globalIndex(p, idx) = g}) = 1

\* C25: in every state 1 <= currentPage <= max(1, ceil(rows / 10)) and the
\* pages 1..totalPages are consecutive slices of 1 to 10 rows that hold
\* every row exactly once, each shown with its 1-based position, the index
\* of the export; the effect run for a changed rawText sets currentPage to 1
C25_Pagination ==
  [][/\ PagesWellFormed(parsedData, currentPage, totalPages)
     /\ PagesWellFormed(parsedData', currentPage', totalPages')
     /\ rawText' # rawText => effect' = "pending"
     /\ (effect = "pending" /\ effect' = "done") => currentPage' = 1
     /\ (effect' = "done" /\ currentPage' # currentPage) =>
          \/ currentPage' = 1 /\ effect = "pending"
          \/ /\ parsedData' = parsedData
             /\ currentPage' \in {currentPage - 1, currentPage + 1}]_vars

\* the reply changes to Scenario A while page 2 of the long reply is shown
C25_Witness ==
  /\ effect = "pending"
  /\ rawText = ScenarioA
  /\ currentPage = 2
  /\ Len(parsedData) = ITEMS_PER_PAGE + 1
  /\ Len(currentRows(parsedData, 2)) = 1

\* C26: the export has one data line per row and every data line has exactly
\* 10 tab-separated fields, as many as the header line
C26_ExportFieldCount ==
  clipboard # Undefined =>
     \E lines \in {Split(clipboard, NL)} :
        /\ Len(Split(lines[1], TAB)) = 10
        /\ Len(parsedData) > 0 =>
             /\ Len(lines) = 1 + Len(parsedData)
             /\ \A k \in 2..Len(lines) : Len(Split(lines[k], TAB)) = 10

\* the parts of the sequence ps that come from the file with the given id
PartsFrom(ps, id) == SelectSeq(ps, LAMBDA q : q.file = id)

\* the kinds of the parts in ps
Kinds(ps) == [k \in 1..Len(ps) |-> ps[k].kind]

\* what C27 states of the parts one file contributes
ContributionAsStated(fileType, read, kinds) ==
  CASE fileType = "image" ->
         kinds = (IF read THEN <<"inlineData">> ELSE <<>>)
    [] fileType = "excel" ->
         kinds = (IF read THEN <<"text">> ELSE <<"placeholder">>)
    [] OTHER ->
         IF read
         THEN /\ Len(kinds) >= 1
              /\ kinds[1] = "text"
              /\ \A k \in 2..Len(kinds) : kinds[k] = "inlineData"
         ELSE kinds = <<"placeholder">>

\* C27: a file that cannot be read never ends the call: once every file was
\* visited the model is called with the parts of the files in the order of
\* the files (a placeholder for a Word or Excel file that failed, nothing
\* for an image that failed) followed by the prompt, the only prompt part;
\* a call is rejected only by the key check or by the model
C27_PartsOrder ==
  /\ request.pc = "reading" =>
       /\ Len(request.outcomes) = request.i - 1
       /\ request.reads = request.i - 1
       /\ \A k \in 1..Len(request.parts) : request.parts[k].kind # "prompt"
  /\ request.pc = "rejected" =>
       request.failure = "apiKey" \/ request.calls = 1
  /\ request.pc = "calling" =>
       \E fs \in {request.rawFiles} : \E ps \in {request.parts} :
          /\ Len(request.outcomes) = Len(fs)
          /\ request.reads = Len(fs)
          /\ Len(ps) >= 1
          /\ ps[Len(ps)] = PromptPart
          /\ \A k \in 1..(Len(ps) - 1) :
               /\ ps[k].kind # "prompt"
               /\ \E j \in 1..Len(fs) : ps[k].file = fs[j].id
          /\ \A j \in 1..Len(fs) :
               ContributionAsStated(fs[j].fileType, request.outcomes[j],
                                    Kinds(PartsFrom(ps, fs[j].id)))
          /\ \A a, b \in 1..(Len(ps) - 1) :
               a < b =>
                 \A ja, jb \in 1..Len(fs) :
                    (ps[a].file = fs[ja].id /\ ps[b].file = fs[jb].id) => ja <= jb

\* an Excel file that could not be read, then a Word file with a picture
C27_Witness ==
  /\ request.pc = "calling"
  /\ Len(request.rawFiles) = 2
  /\ request.rawFiles[1].fileType = "excel"
  /\ request.rawFiles[2].fileType = "word"
  /\ request.outcomes = <<FALSE, TRUE>>
  /\ Kinds(request.parts) = <<"placeholder", "text", "inlineData", "prompt">>

====
